---- MODULE Spec2Model ----
(***************************************************************************)
(* A model of .rag/build_index.py: the Markdown chunker (chunk_markdown    *)
(* and its helpers), slugify, build_neighbors and main.                    *)
(*                                                                         *)
(* A Python str is a sequence of one-character strings; offsets are        *)
(* 0-based as in Python and converted where a sequence is indexed.         *)
(***************************************************************************)
EXTENDS Integers, Sequences, FiniteSets, TLC

\* ------------------------------------------------------------------ bounds
\* Longest document, in lines.
MaxLines == 5
\* Largest chunk_size and overlap tried.
MaxChunkSize == 8
MaxOverlap == 2
\* Longest title given to slugify.
MaxTitleLen == 4
\* Largest corpus (in chunks) and largest k given to build_neighbors.
MaxChunks == 3
MaxKnn == 1
\* Most files in main's input directory.
MaxFiles == 2

\* --------------------------------------------------------------- characters
NL == "\n"
SP == " "
HASH == "#"
\* The backtick (a TLA+ string cannot hold one, so it is written ~).
TICK == "~"
HYPHEN == "-"

IsSpace(c) == c \in {SP, NL}

Min(S) == CHOOSE x \in S : \A y \in S : x <= y

\* ---------------------------------------------------------- str operations
RECURSIVE lstrip(_)
lstrip(s) ==
    IF s # <<>> /\ IsSpace(Head(s)) THEN lstrip(Tail(s)) ELSE s

RECURSIVE rstrip(_)
rstrip(s) ==
    IF s # <<>> /\ IsSpace(s[Len(s)]) THEN rstrip(SubSeq(s, 1, Len(s) - 1)) ELSE s

\* str.strip()
strip(s) == rstrip(lstrip(s))

RECURSIVE splitlines_acc(_, _, _)
splitlines_acc(s, cur, acc) ==
    IF s = <<>> THEN (IF cur = <<>> THEN acc ELSE Append(acc, cur))
    ELSE IF Head(s) = NL THEN splitlines_acc(Tail(s), <<>>, Append(acc, cur))
    ELSE splitlines_acc(Tail(s), Append(cur, Head(s)), acc)

\* str.splitlines(): no empty last line after a final line break
splitlines(s) == splitlines_acc(s, <<>>, <<>>)

RECURSIVE split_acc(_, _, _)
split_acc(s, cur, acc) ==
    IF s = <<>> THEN Append(acc, cur)
    ELSE IF Head(s) = NL THEN split_acc(Tail(s), <<>>, Append(acc, cur))
    ELSE split_acc(Tail(s), Append(cur, Head(s)), acc)

\* str.split("\n"): keeps the empty last piece
split_nl(s) == split_acc(s, <<>>, <<>>)

RECURSIVE join_nl(_)
\* "\n".join(parts)
join_nl(parts) ==
    IF parts = <<>> THEN <<>>
    ELSE IF Len(parts) = 1 THEN parts[1]
    ELSE parts[1] \o <<NL>> \o join_nl(Tail(parts))

\* s.startswith(p)
startswith(s, p) == Len(s) >= Len(p) /\ SubSeq(s, 1, Len(p)) = p

\* s.find(p, from): the least 0-based offset >= from where p occurs, or -1
find(s, p, from) ==
    LET hits == {i \in from..(Len(s) - Len(p)) : SubSeq(s, i + 1, i + Len(p)) = p}
    IN IF hits = {} THEN -1 ELSE Min(hits)

\* --------------------------------------------------------- regular expressions
\* CODE_FENCE_RE.match(s): s starts with three backticks
CODE_FENCE_RE(s) == startswith(s, <<TICK, TICK, TICK>>)

RECURSIVE CountHashes(_)
CountHashes(s) ==
    IF s # <<>> /\ Head(s) = HASH THEN 1 + CountHashes(Tail(s)) ELSE 0

\* HEADING_RE.match(ln): 1 to 6 hashes, then whitespace, then at least one more
\* character. The lazy title group followed by \s*$ is the rest of the line
\* without its leading whitespace run and its trailing whitespace, or a single
\* whitespace character when the rest is all whitespace.
HEADING_RE(ln) ==
    LET h == CountHashes(ln)
        rest == SubSeq(ln, h + 1, Len(ln))
    IN h \in 1..6 /\ Len(rest) >= 2 /\ IsSpace(rest[1])

HeadingLevel(ln) == CountHashes(ln)

\* m.group("title").strip()
HeadingTitle(ln) == strip(SubSeq(ln, CountHashes(ln) + 1, Len(ln)))

\* ------------------------------------------------------------------- slugify
\* The letters of the model's alphabet with an upper case, and str.lower() on them.
Lower(c) ==
    CASE c = "A" -> "a"
      [] c = "B" -> "b"
      [] OTHER -> c

\* \w: letters, digits and the underscore
IsWord(c) == c \in {"a", "b", "A", "B", "_"}

RECURSIVE MapLower(_)
MapLower(s) ==
    IF s = <<>> THEN <<>> ELSE <<Lower(Head(s))>> \o MapLower(Tail(s))

RECURSIVE SubNonSlugChars(_)
\* re.sub(r"[^\w\s-]", "", s)
SubNonSlugChars(s) ==
    IF s = <<>> THEN <<>>
    ELSE IF IsWord(Head(s)) \/ IsSpace(Head(s)) \/ Head(s) = HYPHEN
         THEN <<Head(s)>> \o SubNonSlugChars(Tail(s))
         ELSE SubNonSlugChars(Tail(s))

RECURSIVE SubSpaceRuns(_)
\* re.sub(r"\s+", "-", s)
SubSpaceRuns(s) ==
    IF s = <<>> THEN <<>>
    ELSE IF IsSpace(Head(s)) THEN <<HYPHEN>> \o SubSpaceRuns(lstrip(s))
    ELSE <<Head(s)>> \o SubSpaceRuns(Tail(s))

RECURSIVE SubHyphenRuns(_)
\* re.sub(r"-+", "-", s)
SubHyphenRuns(s) ==
    IF s = <<>> THEN <<>>
    ELSE IF Head(s) = HYPHEN /\ Len(s) >= 2 /\ s[2] = HYPHEN THEN SubHyphenRuns(Tail(s))
    ELSE <<Head(s)>> \o SubHyphenRuns(Tail(s))

slugify(title) ==
    SubHyphenRuns(SubSpaceRuns(SubNonSlugChars(MapLower(strip(title)))))

\* ------------------------------------------------------- strip_front_matter
FRONT == <<HYPHEN, HYPHEN, HYPHEN>>

strip_front_matter(text) ==
    IF startswith(text, FRONT)
    THEN LET parts == split_nl(text)
             \* 1-based places of "---" in parts[1:]
             closing == {i \in 2..Len(parts) : parts[i] = FRONT}
         IN IF Len(parts) > 2 /\ closing # {}
            THEN join_nl(SubSeq(parts, Min(closing) + 1, Len(parts)))
            ELSE text
    ELSE text

\* ---------------------------------------------- split_paragraphs_preserving
\* Mutant of EndsParagraph: the fence state is ignored, every blank line ends
\* the paragraph.
EndsParagraph_ignoring_fence(in_fence, ln) == strip(ln) = <<>>

\* Line 86: a blank line outside a fence ends the paragraph.
EndsParagraph(in_fence, ln) == ~in_fence /\ strip(ln) = <<>>

\* One pass of the loop of lines 81-91 over st = [paras, buf, in_fence].
SplitStep(st, ln) ==
    IF CODE_FENCE_RE(strip(ln))
    THEN [st EXCEPT !.in_fence = ~st.in_fence, !.buf = Append(st.buf, ln)]
    ELSE IF EndsParagraph(st.in_fence, ln)
         THEN IF st.buf # <<>>
              THEN [st EXCEPT !.paras = Append(st.paras, strip(join_nl(st.buf))),
                              !.buf = <<>>]
              ELSE st
         ELSE [st EXCEPT !.buf = Append(st.buf, ln)]

RECURSIVE SplitLoop(_, _)
SplitLoop(st, lines) ==
    IF lines = <<>> THEN st ELSE SplitLoop(SplitStep(st, Head(lines)), Tail(lines))

split_paragraphs_preserving(text) ==
    LET st == SplitLoop([paras |-> <<>>, buf |-> <<>>, in_fence |-> FALSE],
                        splitlines(text))
        paras == IF st.buf # <<>>
                 THEN Append(st.paras, strip(join_nl(st.buf)))
                 ELSE st.paras
    IN SelectSeq(paras, LAMBDA p : p # <<>>)

\* ------------------------------------------------------------ parse_headings
\* One pass of the loop of lines 109-119 over st = [headings, in_fence].
ParseStep(st, ln) ==
    IF CODE_FENCE_RE(strip(ln)) THEN [st EXCEPT !.in_fence = ~st.in_fence]
    ELSE IF st.in_fence THEN st
    ELSE IF HEADING_RE(ln)
         THEN [st EXCEPT !.headings =
                  Append(st.headings, [level |-> HeadingLevel(ln), title |-> HeadingTitle(ln)])]
         ELSE st

RECURSIVE ParseLoop(_, _)
ParseLoop(st, lines) ==
    IF lines = <<>> THEN st ELSE ParseLoop(ParseStep(st, Head(lines)), Tail(lines))

parse_headings(text) ==
    ParseLoop([headings |-> <<>>, in_fence |-> FALSE], splitlines(text)).headings

\* ------------------------------------------------- chunk_markdown, lines 137-173
\* Lines 138-144: one TOC entry per parsed heading.
BuildToc(path, stripped) ==
    LET hs == parse_headings(stripped)
    IN [i \in 1..Len(hs) |->
           [path |-> path, level |-> hs[i].level, title |-> hs[i].title,
            anchor |-> slugify(hs[i].title)]]

\* Lines 150-154, one line: a heading line is recorded with the offset of its line.
PositionStep(st, ln) ==
    [pos |-> st.pos + Len(ln) + 1,
     hp |-> IF HEADING_RE(ln)
            THEN Append(st.hp, [pos |-> st.pos, level |-> HeadingLevel(ln),
                                title |-> HeadingTitle(ln)])
            ELSE st.hp]

RECURSIVE PositionLoop(_, _)
PositionLoop(st, lines) ==
    IF lines = <<>> THEN st ELSE PositionLoop(PositionStep(st, Head(lines)), Tail(lines))

\* Lines 147-154: headings_positions
HeadingsPositions(stripped) ==
    PositionLoop([pos |-> 0, hp |-> <<>>], splitlines(stripped)).hp

RECURSIVE ParPositionsFrom(_, _, _)
\* Lines 157-164: each paragraph is searched from the end of the one before.
ParPositionsFrom(stripped, ps, pos) ==
    IF ps = <<>> THEN <<>>
    ELSE LET found == find(stripped, Head(ps), pos)
             idx == IF found = -1 THEN pos ELSE found
         IN <<idx>> \o ParPositionsFrom(stripped, Tail(ps), idx + Len(Head(ps)))

ParPositions(stripped, ps) == ParPositionsFrom(stripped, ps, 0)

\* Lines 169-172: the title of the last heading at or before idx, or "".
ContextTitle(hp, idx) ==
    LET prev == SelectSeq(hp, LAMBDA h : h.pos <= idx)
    IN IF prev # <<>> THEN prev[Len(prev)].title ELSE <<>>

\* Lines 166-173: frames, one (context_title, paragraph) per paragraph.
Frames(stripped, ps, hp) ==
    LET pp == ParPositions(stripped, ps)
    IN [i \in 1..Len(ps) |-> [ctx_title |-> ContextTitle(hp, pp[i]), para |-> ps[i]]]

\* ------------------------------------------------- chunk_markdown, lines 176-220
\* The defaults of --chunk-size, --chunk-overlap, --keywords-per-chunk and --knn.
DefaultChunkSize == 1000
DefaultChunkOverlap == 120
DefaultKeywords == 10
DefaultKnn == 5

DocPath == "a.md"

\* Path(path).stem for the paths of the model.
Stem(path) ==
    CASE path = "a.md" -> "a"
      [] path = "b.md" -> "b"
      [] path = "c.md" -> "c"
      [] OTHER -> path

NLNL == <<NL, NL>>

\* Lines 182-196: an accumulator that is blank after trimming is dropped;
\* chunk_idx is the number of chunks emitted so far.
flush_chunk(cs, path, text_acc, heading_acc, start, end) ==
    IF strip(text_acc) = <<>> THEN cs
    ELSE Append(cs, [id |-> <<path, Len(cs)>>, path |-> path, title |-> Stem(path),
                     heading |-> heading_acc, start |-> start, end |-> end,
                     text |-> strip(text_acc)])

\* Line 205
Fits(cur, para_text, size) == Len(cur) + 2 + Len(para_text) <= size

\* Mutant of AppendPara: the paragraph overwrites the accumulator.
AppendPara_overwriting(cur, para_text) == para_text

\* Line 206
AppendPara(cur, para_text) ==
    IF cur # <<>> THEN cur \o NLNL \o para_text ELSE para_text

\* Line 209
Seeds(cur, ov) == ov > 0 /\ Len(cur) > ov

\* Mutant of OverlapTail: the slice is one character too long.
OverlapTail_one_more(cur, ov) == SubSeq(cur, Len(cur) - ov, Len(cur))

\* Line 210: cur_text[-overlap:]
OverlapTail(cur, ov) == SubSeq(cur, Len(cur) - ov + 1, Len(cur))

\* Line 212, evaluated after cur_text was reassigned in line 211
SeededStart(start, new_cur, tail, para_text) ==
    start + Len(new_cur) - Len(tail) - Len(para_text) - 2

\* Mutant of UnseededStart: the previous start is not carried over.
UnseededStart_restarting(start, new_cur) == Len(new_cur)

\* Line 215, evaluated after cur_text was reassigned in line 214
UnseededStart(start, new_cur) == start + Len(new_cur)

\* Lines 198-217, one iteration over a = [cur_text, cur_heading, start_char,
\* acc_len, chunks].
RollStep(a, frame, path, size, ov) ==
    LET para_text == strip(frame.para)
        \* lines 202-204
        heading == IF a.cur_text = <<>> THEN frame.ctx_title ELSE a.cur_heading
        start == IF a.cur_text = <<>> THEN a.acc_len ELSE a.start_char
    IN IF para_text = <<>> THEN a
       ELSE IF Fits(a.cur_text, para_text, size)
       THEN [a EXCEPT !.cur_text = AppendPara(a.cur_text, para_text),
                      !.cur_heading = heading,
                      !.start_char = start,
                      !.acc_len = a.acc_len + Len(para_text) + 2]
       ELSE LET flushed == flush_chunk(a.chunks, path, a.cur_text, heading, start,
                                       start + Len(a.cur_text))
                tail == OverlapTail(a.cur_text, ov)
                new_cur == IF Seeds(a.cur_text, ov) THEN tail \o NLNL \o para_text
                           ELSE para_text
            IN [cur_text |-> new_cur,
                cur_heading |-> frame.ctx_title,
                start_char |-> IF Seeds(a.cur_text, ov)
                               THEN SeededStart(start, new_cur, tail, para_text)
                               ELSE UnseededStart(start, new_cur),
                acc_len |-> a.acc_len + Len(para_text) + 2,
                chunks |-> flushed]

\* Lines 176-180
RollInit ==
    [cur_text |-> <<>>, cur_heading |-> <<>>, start_char |-> 0, acc_len |-> 0,
     chunks |-> <<>>]

\* Line 219
FinalFlush(a, path) ==
    flush_chunk(a.chunks, path, a.cur_text, a.cur_heading, a.start_char,
                a.start_char + Len(a.cur_text))

RECURSIVE RollLoop(_, _, _, _, _)
RollLoop(a, fs, path, size, ov) ==
    IF fs = <<>> THEN a
    ELSE RollLoop(RollStep(a, Head(fs), path, size, ov), Tail(fs), path, size, ov)

\* chunk_markdown as a whole: (chunks, toc)
chunk_markdown(path, text, size, ov) ==
    LET stripped == strip_front_matter(text)
        ps == split_paragraphs_preserving(stripped)
        fs == Frames(stripped, ps, HeadingsPositions(stripped))
    IN [chunks |-> FinalFlush(RollLoop(RollInit, fs, path, size, ov), path),
        toc |-> BuildToc(path, stripped)]

\* ------------------------------------------------------------------ inputs
\* The lines documents are made of: a blank line, a text line, two headings
\* and a fence delimiter.
LineSet ==
    { <<>>, <<"a">>, <<HASH, SP, "A">>, <<HASH, SP, "B">>, <<TICK, TICK, TICK>> }

\* Every document of at most MaxLines lines, lines joined by line breaks.
Documents ==
    { join_nl(ls) : ls \in UNION { [1..n -> LineSet] : n \in 0..MaxLines } }

\* ------------------------------------------------------------------- state
VARIABLES
    \* chunk_markdown
    text, chunk_size, overlap,      \* its arguments
    pc,                             \* where it stands
    paras, toc, headings_positions, frames,
    fi,                             \* the next frame of the loop of line 198
    cur_text, cur_heading, start_char, acc_len, chunks,
    \* slugify
    title, slug,
    spc,                            \* where it stands
    \* build_neighbors
    ids,                            \* the chunk ids, in corpus order
    knn,                            \* k
    have_st, have_faiss,            \* _HAVE_SENTENCE_TRANSFORMERS, _HAVE_FAISS
    npc,                            \* where it stands
    ni,                             \* the row being processed, 0-based
    neigh_idxs,                     \* the dense path's rows of (index, score)
    out,                            \* the neighbor lists by chunk id
    \* main
    md_files,                       \* the sorted glob: (path, content) of each file
    mpc,                            \* where it stands
    mf,                             \* the next file of the loop of line 351
    all_chunks, full_toc,
    files,                          \* the artifacts of out_dir: absent, or their rows
    out_dir_exists,
    exit_code

chunkVars ==
    <<text, chunk_size, overlap, pc, paras, toc, headings_positions, frames, fi,
      cur_text, cur_heading, start_char, acc_len, chunks>>

slugVars == <<title, slug, spc>>

neighVars == <<ids, knn, have_st, have_faiss, npc, ni, neigh_idxs, out>>

mainVars == <<md_files, mpc, mf, all_chunks, full_toc, files, out_dir_exists, exit_code>>

vars == <<chunkVars, slugVars, neighVars, mainVars>>

\* ------------------------------------------------------------ chunk_markdown
ChunkInit ==
    /\ text \in Documents
    /\ chunk_size \in 1..MaxChunkSize
    /\ overlap \in 0..MaxOverlap
    /\ pc = "start"
    /\ paras = <<>>
    /\ toc = <<>>
    /\ headings_positions = <<>>
    /\ frames = <<>>
    /\ fi = 1
    /\ cur_text = RollInit.cur_text
    /\ cur_heading = RollInit.cur_heading
    /\ start_char = RollInit.start_char
    /\ acc_len = RollInit.acc_len
    /\ chunks = RollInit.chunks

\* chunk_markdown is not running.
\* size and ov are the options of the run.
ChunkIdle(size, ov) ==
    /\ text = <<>>
    /\ chunk_size = size
    /\ overlap = ov
    /\ pc = "idle"
    /\ paras = <<>>
    /\ toc = <<>>
    /\ headings_positions = <<>>
    /\ frames = <<>>
    /\ fi = 1
    /\ cur_text = <<>>
    /\ cur_heading = <<>>
    /\ start_char = 0
    /\ acc_len = 0
    /\ chunks = <<>>

\* Lines 130-180: everything before the rolling loop.
Prepare ==
    /\ pc = "start"
    /\ \E stripped \in {strip_front_matter(text)} :
       \E ps \in {split_paragraphs_preserving(stripped)} :
       \E hp \in {HeadingsPositions(stripped)} :
          /\ paras' = ps
          /\ toc' = BuildToc(DocPath, stripped)
          /\ headings_positions' = hp
          /\ frames' = Frames(stripped, ps, hp)
    /\ pc' = "roll"
    /\ UNCHANGED <<text, chunk_size, overlap, fi, cur_text, cur_heading, start_char,
                   acc_len, chunks>>
    /\ UNCHANGED <<slugVars, neighVars, mainVars>>

Accumulator ==
    [cur_text |-> cur_text, cur_heading |-> cur_heading, start_char |-> start_char,
     acc_len |-> acc_len, chunks |-> chunks]

\* Lines 198-217: one paragraph is rolled into the accumulator.
Roll ==
    /\ pc = "roll"
    /\ fi <= Len(frames)
    /\ \E a \in {RollStep(Accumulator, frames[fi], DocPath, chunk_size, overlap)} :
          /\ cur_text' = a.cur_text
          /\ cur_heading' = a.cur_heading
          /\ start_char' = a.start_char
          /\ acc_len' = a.acc_len
          /\ chunks' = a.chunks
    /\ fi' = fi + 1
    /\ UNCHANGED <<text, chunk_size, overlap, pc, paras, toc, headings_positions, frames>>
    /\ UNCHANGED <<slugVars, neighVars, mainVars>>

\* Lines 219-220: the last accumulator is flushed and the chunks returned.
Finish ==
    /\ pc = "roll"
    /\ fi > Len(frames)
    /\ chunks' = FinalFlush(Accumulator, DocPath)
    /\ pc' = "done"
    /\ UNCHANGED <<text, chunk_size, overlap, paras, toc, headings_positions, frames,
                   fi, cur_text, cur_heading, start_char, acc_len>>
    /\ UNCHANGED <<slugVars, neighVars, mainVars>>

\* ------------------------------------------------------------------ slugify
SlugAlphabet == {"a", "A", SP, HYPHEN, "!", "_"}

Titles == UNION { [1..n -> SlugAlphabet] : n \in 0..MaxTitleLen }

SlugInit ==
    /\ title \in Titles
    /\ slug = <<>>
    /\ spc = "start"

SlugIdle ==
    /\ title = <<>>
    /\ slug = <<>>
    /\ spc = "idle"

\* Lines 97-102
Slugify ==
    /\ spc = "start"
    /\ slug' = slugify(title)
    /\ spc' = "done"
    /\ UNCHANGED title
    /\ UNCHANGED <<chunkVars, neighVars, mainVars>>

\* ---------------------------------------------------------- build_neighbors
\* Similarity levels, standing for the floating-point scores and distances.
Levels == {0, 1}

\* The file the i-th path of a run names.
PathOf(i) ==
    CASE i = 1 -> "a.md"
      [] i = 2 -> "b.md"
      [] OTHER -> "c.md"

\* The ids flush_chunk gives the chunks of two documents of n1 and n2 chunks.
CorpusIds(n1, n2) ==
    [i \in 1..(n1 + n2) |->
        IF i <= n1 THEN <<PathOf(1), i - 1>> ELSE <<PathOf(2), i - n1 - 1>>]

\* The corpora of at most MaxChunks chunks: two documents, the first with the
\* larger half of the chunks.
Corpora == { CorpusIds(n - (n \div 2), n \div 2) : n \in 0..MaxChunks }

SmallerOf(a, b) == IF a <= b THEN a ELSE b

\* What the nearest-neighbour capability can answer for one query over n
\* vectors: len distinct indices, nearest first (v is the distance, ascending,
\* or the score, descending when byScore). Which of several equally near
\* vectors comes first, and whether the query vector itself is among them, is
\* the capability's choice.
KnnRows(n, len, byScore) ==
    { c \in [1..len -> [j : 0..(n - 1), v : Levels]] :
        /\ \A a, b \in 1..len : a # b => c[a].j # c[b].j
        /\ \A a \in 1..(len - 1) :
              IF byScore THEN c[a].v >= c[a + 1].v ELSE c[a].v <= c[a + 1].v }

\* Line 262: index.search(vectors, kk + 1) answers kk + 1 places for each query,
\* the places past the n vectors filled with -1.
FaissRows(n, kk) ==
    { c \o [i \in 1..(kk + 1 - SmallerOf(kk + 1, n)) |-> [j |-> -1, v |-> 0]] :
        c \in KnnRows(n, SmallerOf(kk + 1, n), TRUE) }

\* Lines 275-277 and 300-302: n_neighbors = min(k + 1, len(texts))
SklearnRows(n, kk) == KnnRows(n, SmallerOf(kk + 1, n), FALSE)

\* Line 267
SkipFaiss(j, i) == j = i \/ j < 0

\* Line 282
SkipExact(j, i) == j = i

\* Mutant of SkipSparse: the candidate is never compared with the row.
SkipSparse_never(j, i) == FALSE

\* Line 307
SkipSparse(j, i) == j = i

RECURSIVE FaissScan(_, _, _, _)
\* Lines 265-271: the loop over one row of (I[i], D[i])
FaissScan(cands, i, kk, neigh) ==
    IF cands = <<>> THEN neigh
    ELSE IF SkipFaiss(Head(cands).j, i) THEN FaissScan(Tail(cands), i, kk, neigh)
    ELSE LET grown == Append(neigh, <<Head(cands).j, Head(cands).v>>)
         IN IF Len(grown) >= kk THEN grown ELSE FaissScan(Tail(cands), i, kk, grown)

RECURSIVE ExactScan(_, _, _, _)
\* Lines 280-287: the loop over one row of (idxs[i], dists[i])
ExactScan(cands, i, kk, neigh) ==
    IF cands = <<>> THEN neigh
    ELSE IF SkipExact(Head(cands).j, i) THEN ExactScan(Tail(cands), i, kk, neigh)
    ELSE LET grown == Append(neigh, <<Head(cands).j, 1 - Head(cands).v>>)
         IN IF Len(grown) >= kk THEN grown ELSE ExactScan(Tail(cands), i, kk, grown)

RECURSIVE SparseScan(_, _, _, _, _)
\* Lines 305-312: the loop over one row of (row_idx, row_dist)
SparseScan(cands, i, kk, idseq, neigh) ==
    IF cands = <<>> THEN neigh
    ELSE IF SkipSparse(Head(cands).j, i) THEN SparseScan(Tail(cands), i, kk, idseq, neigh)
    ELSE LET grown == Append(neigh, <<idseq[Head(cands).j + 1], 1 - Head(cands).v>>)
         IN IF Len(grown) >= kk THEN grown
            ELSE SparseScan(Tail(cands), i, kk, idseq, grown)

RECURSIVE DenseOut(_, _, _)
\* Lines 292-294: out[ids[i]] = [(ids[j], score) ...] for the rows from i on
\* (i is 1-based here); a later row under the same id replaces an earlier one.
DenseOut(idseq, rows, i) ==
    IF i > Len(rows) THEN <<>>
    ELSE DenseOut(idseq, rows, i + 1) @@
         (idseq[i] :> [m \in 1..Len(rows[i]) |->
                          <<idseq[rows[i][m][1] + 1], rows[i][m][2]>>])

NeighInit ==
    /\ ids \in Corpora
    /\ knn \in 0..MaxKnn
    /\ have_st \in BOOLEAN
    /\ have_faiss \in BOOLEAN
    /\ npc = "start"
    /\ ni = 0
    /\ neigh_idxs = <<>>
    /\ out = <<>>

\* build_neighbors is not running; kk and the two flags are those of the run.
NeighIdle(kk, st, fa) ==
    /\ ids = <<>>
    /\ knn = kk
    /\ have_st = st
    /\ have_faiss = fa
    /\ npc = "idle"
    /\ ni = 0
    /\ neigh_idxs = <<>>
    /\ out = <<>>

\* Lines 250-251
ReturnEmpty ==
    /\ npc = "start"
    /\ ids = <<>>
    /\ out' = <<>>
    /\ npc' = "returned"
    /\ UNCHANGED <<ids, knn, have_st, have_faiss, ni, neigh_idxs>>
    /\ UNCHANGED <<chunkVars, slugVars, mainVars>>

\* Lines 260-272, one row of the approximate index's answer
FaissRow ==
    /\ npc = "start"
    /\ have_st /\ have_faiss
    /\ ni < Len(ids)
    /\ \E cands \in FaissRows(Len(ids), knn) :
          neigh_idxs' = Append(neigh_idxs, FaissScan(cands, ni, knn, <<>>))
    /\ ni' = ni + 1
    /\ UNCHANGED <<ids, knn, have_st, have_faiss, npc, out>>
    /\ UNCHANGED <<chunkVars, slugVars, mainVars>>

\* Lines 275-288, one row of the exact nearest neighbours' answer
ExactRow ==
    /\ npc = "start"
    /\ have_st /\ ~have_faiss
    /\ ni < Len(ids)
    /\ \E cands \in SklearnRows(Len(ids), knn) :
          neigh_idxs' = Append(neigh_idxs, ExactScan(cands, ni, knn, <<>>))
    /\ ni' = ni + 1
    /\ UNCHANGED <<ids, knn, have_st, have_faiss, npc, out>>
    /\ UNCHANGED <<chunkVars, slugVars, mainVars>>

\* Lines 291-295
DenseReturn ==
    /\ npc = "start"
    /\ have_st
    /\ ids # <<>>
    /\ ni = Len(ids)
    /\ out' = DenseOut(ids, neigh_idxs, 1)
    /\ npc' = "returned"
    /\ UNCHANGED <<ids, knn, have_st, have_faiss, ni, neigh_idxs>>
    /\ UNCHANGED <<chunkVars, slugVars, mainVars>>

\* Lines 298-313, one row of the TF-IDF fallback
SparseRow ==
    /\ npc = "start"
    /\ ~have_st
    /\ ni < Len(ids)
    /\ \E cands \in SklearnRows(Len(ids), knn) :
          out' = (ids[ni + 1] :> SparseScan(cands, ni, knn, ids, <<>>)) @@ out
    /\ ni' = ni + 1
    /\ UNCHANGED <<ids, knn, have_st, have_faiss, npc, neigh_idxs>>
    /\ UNCHANGED <<chunkVars, slugVars, mainVars>>

\* Line 314
SparseReturn ==
    /\ npc = "start"
    /\ ~have_st
    /\ ids # <<>>
    /\ ni = Len(ids)
    /\ npc' = "returned"
    /\ UNCHANGED <<ids, knn, have_st, have_faiss, ni, neigh_idxs, out>>
    /\ UNCHANGED <<chunkVars, slugVars, mainVars>>

\* ----------------------------------------------------------------------- main
Artifacts == {"chunks.jsonl", "toc.json", "keywords.jsonl", "neighbors.jsonl"}

\* An out_dir never written to, and one holding the artifacts of an earlier run.
FreshDir == [f \in Artifacts |-> [present |-> FALSE, rows |-> <<>>]]

StaleDir == [f \in Artifacts |-> [present |-> TRUE, rows |-> <<[id |-> <<"old.md", 0>>]>>]]

\* The files of the input directory: an empty one, one paragraph, and front
\* matter followed by a heading and a paragraph.
MainDocs ==
    { <<>>,
      <<"a">>,
      join_nl(<<FRONT, FRONT, <<HASH, SP, "A">>, <<>>, <<"a">>>>) }

\* sorted(input_dir.glob("**/*.md")) with each file's content
FileLists ==
    UNION { { [i \in 1..n |-> [path |-> PathOf(i), text |-> f[i]]] :
                f \in [1..n -> MainDocs] } : n \in 0..MaxFiles }

\* The terms of a chunk by falling weight, as the term-weighting capability may
\* give them (none when the chunk holds only stop words).
TermLists == {<<>>, <<"t">>}

\* Lines 223-244: no rows for an empty corpus, else one row per chunk with its
\* topk first terms.
build_keywords(cs, topk) ==
    IF cs = <<>> THEN {<<>>}
    ELSE { [i \in 1..Len(cs) |->
              [id |-> cs[i].id,
               keywords |-> SubSeq(terms[i], 1, SmallerOf(topk, Len(terms[i])))]] :
           terms \in [1..Len(cs) -> TermLists] }


MainInit ==
    /\ md_files \in FileLists
    /\ mpc = "start"
    /\ mf = 1
    /\ all_chunks = <<>>
    /\ full_toc = <<>>
    /\ files \in {FreshDir, StaleDir}
    /\ out_dir_exists = files["chunks.jsonl"].present
    /\ exit_code = "running"

MainIdle ==
    /\ md_files = <<>>
    /\ mpc = "idle"
    /\ mf = 1
    /\ all_chunks = <<>>
    /\ full_toc = <<>>
    /\ files = FreshDir
    /\ out_dir_exists = FALSE
    /\ exit_code = "running"

\* Lines 340-347: no markdown file; a notice, and exit status 0.
MainNoFiles ==
    /\ mpc = "start"
    /\ md_files = <<>>
    /\ out_dir_exists' = TRUE
    /\ exit_code' = 0
    /\ mpc' = "exited"
    /\ UNCHANGED <<md_files, mf, all_chunks, full_toc, files>>
    /\ UNCHANGED <<chunkVars, slugVars, neighVars>>

\* Lines 340-350: some markdown file
MainStart ==
    /\ mpc = "start"
    /\ md_files # <<>>
    /\ out_dir_exists' = TRUE
    /\ mpc' = "chunking"
    /\ UNCHANGED <<md_files, mf, all_chunks, full_toc, files, exit_code>>
    /\ UNCHANGED <<chunkVars, slugVars, neighVars>>

\* Lines 351-355, one file
MainChunkFile ==
    /\ mpc = "chunking"
    /\ mf <= Len(md_files)
    /\ LET r == chunk_markdown(md_files[mf].path, md_files[mf].text, chunk_size, overlap)
       IN /\ all_chunks' = all_chunks \o r.chunks
          /\ full_toc' = full_toc \o r.toc
    /\ mf' = mf + 1
    /\ UNCHANGED <<md_files, mpc, files, out_dir_exists, exit_code>>
    /\ UNCHANGED <<chunkVars, slugVars, neighVars>>

\* Lines 357-358
MainWriteChunks ==
    /\ mpc = "chunking"
    /\ mf > Len(md_files)
    /\ files' = [files EXCEPT !["chunks.jsonl"] = [present |-> TRUE, rows |-> all_chunks],
                              !["toc.json"] = [present |-> TRUE, rows |-> full_toc]]
    /\ mpc' = "keywords"
    /\ UNCHANGED <<md_files, mf, all_chunks, full_toc, out_dir_exists, exit_code>>
    /\ UNCHANGED <<chunkVars, slugVars, neighVars>>

\* Lines 360-361
MainWriteKeywords ==
    /\ mpc = "keywords"
    /\ \E kw \in build_keywords(all_chunks, DefaultKeywords) :
          files' = [files EXCEPT !["keywords.jsonl"] = [present |-> TRUE, rows |-> kw]]
    /\ mpc' = "call_neighbors"
    /\ UNCHANGED <<md_files, mf, all_chunks, full_toc, out_dir_exists, exit_code>>
    /\ UNCHANGED <<chunkVars, slugVars, neighVars>>

\* Line 363: build_neighbors(all_chunks, args.knn) is entered.
MainCallNeighbors ==
    /\ mpc = "call_neighbors"
    /\ npc = "idle"
    /\ ids' = [i \in 1..Len(all_chunks) |-> all_chunks[i].id]
    /\ npc' = "start"
    /\ mpc' = "neighbors"
    /\ UNCHANGED <<knn, have_st, have_faiss, ni, neigh_idxs, out>>
    /\ UNCHANGED <<md_files, mf, all_chunks, full_toc, files, out_dir_exists, exit_code>>
    /\ UNCHANGED <<chunkVars, slugVars>>

\* Lines 364-368: one row per chunk, neigh.get(cid, []); main ends.
MainWriteNeighbors ==
    /\ mpc = "neighbors"
    /\ npc = "returned"
    /\ files' = [files EXCEPT !["neighbors.jsonl"] =
                   [present |-> TRUE,
                    rows |-> [i \in 1..Len(all_chunks) |->
                                [id |-> all_chunks[i].id,
                                 neighbors |-> IF all_chunks[i].id \in DOMAIN out
                                               THEN out[all_chunks[i].id] ELSE <<>>]]]]
    /\ exit_code' = 0
    /\ mpc' = "exited"
    /\ UNCHANGED <<md_files, mf, all_chunks, full_toc, out_dir_exists>>
    /\ UNCHANGED <<chunkVars, slugVars, neighVars>>

\* ------------------------------------------------------------ specifications
Init ==
    /\ ChunkInit
    /\ SlugIdle
    /\ NeighIdle(0, FALSE, FALSE)
    /\ MainIdle

Next == Prepare \/ Roll \/ Finish

\* chunk_markdown on every document, chunk_size and overlap of the bounds.
Spec == Init /\ [][Next]_vars

SlugSpecInit ==
    /\ ChunkIdle(1, 0)
    /\ SlugInit
    /\ NeighIdle(0, FALSE, FALSE)
    /\ MainIdle

SlugNext == Slugify

\* slugify on every title of the bounds.
SlugSpec == SlugSpecInit /\ [][SlugNext]_vars

NeighSpecInit ==
    /\ ChunkIdle(1, 0)
    /\ SlugIdle
    /\ NeighInit
    /\ MainIdle

NeighNext ==
    ReturnEmpty \/ FaissRow \/ ExactRow \/ DenseReturn \/ SparseRow \/ SparseReturn

\* build_neighbors on every corpus and k of the bounds, with and without the
\* optional capabilities.
NeighSpec == NeighSpecInit /\ [][NeighNext]_vars

MainSpecInit ==
    /\ ChunkIdle(DefaultChunkSize, DefaultChunkOverlap)
    /\ SlugIdle
    /\ \E kk \in (0..MaxKnn) \cup {DefaultKnn}, st \in BOOLEAN, fa \in BOOLEAN :
          NeighIdle(kk, st, fa)
    /\ MainInit

MainNext ==
    \/ MainNoFiles \/ MainStart \/ MainChunkFile \/ MainWriteChunks
    \/ MainWriteKeywords \/ MainCallNeighbors \/ MainWriteNeighbors
    \/ NeighNext

\* A run of main over every input directory of the bounds.
MainSpec == MainSpecInit /\ [][MainNext]_vars

\* ------------------------------------------------------- claims: the chunker
\* p occurs in s as a contiguous substring.
Contains(s, p) == find(s, p, 0) # -1

RECURSIVE CoveredFrom(_, _)
\* Paragraphs pi.. each lie whole in a chunk, the chunks taken in emission order
\* starting at chunk from (the earliest possible chunk is taken each time).
CoveredFrom(pi, from) ==
    IF pi > Len(paras) THEN TRUE
    ELSE LET cs == {c \in from..Len(chunks) : Contains(chunks[c].text, paras[pi])}
         IN cs # {} /\ CoveredFrom(pi + 1, Min(cs))

\* C1. Chunk coverage: when chunk_markdown returns, every non-empty paragraph
\* of split_paragraphs_preserving lies whole, as a contiguous substring, in the
\* text of a chunk, and the chunks holding successive paragraphs come in
\* non-decreasing emission order; no paragraph is dropped.
ChunkCoverage == pc = "done" => CoveredFrom(1, 1)

\* C1's case: several paragraphs, one of them longer than chunk_size, rolled
\* into several chunks with an overlap.
ChunkCoverageWitness ==
    /\ pc = "done"
    /\ Len(paras) >= 3
    /\ Len(chunks) >= 2
    /\ overlap > 0
    /\ \E i \in 1..Len(paras) : Len(paras[i]) > chunk_size

\* The chunk holds a paragraph longer than chunk_size (nothing is ever appended
\* to such a paragraph, so the chunk is formed from it alone).
Oversized(c) ==
    \E i \in 1..Len(paras) : Len(paras[i]) > chunk_size /\ Contains(c.text, paras[i])

\* C2 as claimed. Size bound: every chunk not formed from a single paragraph
\* longer than chunk_size has len(text) <= chunk_size + overlap (stated by
\* contraposition: a chunk longer than that is formed from such a paragraph).
SizeBound ==
    \A i \in 1..Len(chunks) :
        Len(chunks[i].text) > chunk_size + overlap => Oversized(chunks[i])

\* C2 as amended. Every chunk not formed from a single paragraph longer than
\* chunk_size has len(text) <= chunk_size + overlap + 2: the seeded overlap tail
\* is joined to the paragraph by a two-character blank-line separator.
SizeBoundWithSeparator ==
    \A i \in 1..Len(chunks) :
        Len(chunks[i].text) > chunk_size + overlap + 2 => Oversized(chunks[i])

\* C2's case: a chunk seeded with the overlap tail that reaches the amended bound.
SizeBoundWitness ==
    /\ pc = "done"
    /\ overlap > 0
    /\ \E i \in 1..Len(chunks) :
          /\ ~Oversized(chunks[i])
          /\ Len(chunks[i].text) = chunk_size + overlap + 2

\* One pass over a line for the headings outside fences, with their offsets:
\* st = [pos, in_fence, hs].
OutsideStep(st, ln) ==
    IF CODE_FENCE_RE(strip(ln))
    THEN [st EXCEPT !.pos = st.pos + Len(ln) + 1, !.in_fence = ~st.in_fence]
    ELSE IF ~st.in_fence /\ HEADING_RE(ln)
    THEN [st EXCEPT !.pos = st.pos + Len(ln) + 1,
                    !.hs = Append(st.hs, [pos |-> st.pos, title |-> HeadingTitle(ln)])]
    ELSE [st EXCEPT !.pos = st.pos + Len(ln) + 1]

RECURSIVE OutsideLoop(_, _)
OutsideLoop(st, lines) ==
    IF lines = <<>> THEN st ELSE OutsideLoop(OutsideStep(st, Head(lines)), Tail(lines))

\* The document's headings (those parse_headings reports), each with the offset
\* of its line in the normalized text.
DocHeadings ==
    LET hs == OutsideLoop([pos |-> 0, in_fence |-> FALSE, hs |-> <<>>],
                          splitlines(strip_front_matter(text))).hs
    IN {hs[i] : i \in 1..Len(hs)}

\* The chunk carries the title of a heading before offset p, and no heading at
\* or after p has that title.
HeadingFromBefore(c, p) ==
    /\ \E h \in DocHeadings : h.pos < p /\ h.title = c.heading
    /\ \A h \in DocHeadings : h.pos >= p => h.title # c.heading

\* C3. Heading assignment monotonicity: with headings at offsets p1 < p2, no
\* chunk whose stored start is >= p2 carries the title of a heading located
\* before p1.
HeadingMonotonicity ==
    \A i \in 1..Len(chunks) : \A h1, h2 \in DocHeadings :
        (h1.pos < h2.pos /\ chunks[i].start >= h2.pos)
            => ~HeadingFromBefore(chunks[i], h1.pos)

RECURSIVE FenceBlocksFrom(_, _, _)
\* The closed fenced blocks of lines i.., as <<first line, last line>>; open is
\* the opening line of the block being read, or 0.
FenceBlocksFrom(lines, i, open) ==
    IF i > Len(lines) THEN {}
    ELSE IF CODE_FENCE_RE(strip(lines[i]))
    THEN IF open = 0 THEN FenceBlocksFrom(lines, i + 1, i)
         ELSE {<<open, i>>} \cup FenceBlocksFrom(lines, i + 1, 0)
    ELSE FenceBlocksFrom(lines, i + 1, open)

DocLines == splitlines(strip_front_matter(text))

FenceBlocks == FenceBlocksFrom(DocLines, 1, 0)

\* The block's text, from its opening to its closing delimiter.
BlockText(b) == strip(join_nl(SubSeq(DocLines, b[1], b[2])))

\* C4. Fence atomicity: a fenced code block of at most chunk_size characters,
\* blank lines inside included, lies whole in one paragraph of
\* split_paragraphs_preserving and, when chunk_markdown returns, whole in the
\* text of one chunk.
FenceAtomicity ==
    pc # "start" =>
        \A b \in FenceBlocks :
            Len(BlockText(b)) <= chunk_size
                => /\ \E i \in 1..Len(paras) : Contains(paras[i], BlockText(b))
                   /\ pc = "done" =>
                          \E i \in 1..Len(chunks) : Contains(chunks[i].text, BlockText(b))

\* C4's case: a block with a blank line inside that fits chunk_size, in a
\* document rolled into several chunks.
FenceAtomicityWitness ==
    /\ pc = "done"
    /\ Len(chunks) >= 2
    /\ \E b \in FenceBlocks :
          /\ Len(BlockText(b)) <= chunk_size
          /\ \E j \in (b[1] + 1)..(b[2] - 1) : strip(DocLines[j]) = <<>>

\* C8. Start ordering: the chunks of a document have non-decreasing start
\* values in emission order, and start <= end in each.
StartOrdering ==
    \A i \in 1..Len(chunks) :
        /\ chunks[i].start <= chunks[i].end
        /\ i < Len(chunks) => chunks[i].start <= chunks[i + 1].start

\* C8's case: three chunks, start growing between two of them and kept (an
\* overlap seed) between two others.
StartOrderingWitness ==
    /\ pc = "done"
    /\ Len(chunks) >= 3
    /\ \E i \in 1..(Len(chunks) - 1) : chunks[i].start < chunks[i + 1].start
    /\ \E i \in 1..(Len(chunks) - 1) : chunks[i].start = chunks[i + 1].start

\* C10. Heading detection is suppressed inside fences for both uses: the
\* heading-position list has one entry per TOC entry, in the same order, and a
\* chunk's heading is empty or the title of a TOC entry.
HeadingsSuppressedInFences ==
    pc # "start" =>
        /\ Len(headings_positions) = Len(toc)
        /\ \A i \in 1..Len(toc) :
              i <= Len(headings_positions) =>
                  /\ headings_positions[i].title = toc[i].title
                  /\ headings_positions[i].level = toc[i].level
        /\ \A i \in 1..Len(chunks) :
              \/ chunks[i].heading = <<>>
              \/ \E j \in 1..Len(toc) : toc[j].title = chunks[i].heading

\* ------------------------------------------------------ claims: the neighbors
\* C5. Neighbor self-exclusion: on the dense path, with or without the
\* approximate index, and on the sparse fallback, the neighbor list stored under
\* a chunk id never contains that id, whatever order the nearest-neighbour
\* capability answers in.
NeighborSelfExclusion ==
    \A id \in DOMAIN out : \A m \in 1..Len(out[id]) : out[id][m][1] # id

\* C5's case: build_neighbors has returned a full list of k >= 1 neighbors for
\* every chunk of a corpus of three chunks or more.
NeighborSelfExclusionWitness ==
    /\ npc = "returned"
    /\ Len(ids) >= 3
    /\ knn >= 1
    /\ \A i \in 1..Len(ids) : ids[i] \in DOMAIN out /\ Len(out[ids[i]]) = knn

\* C6. Neighbor cap: every neighbor list has length <= k (k = 0 included), and
\* length k whenever the corpus has at least k + 1 chunks.
NeighborCap ==
    npc = "returned" =>
        \A id \in DOMAIN out :
            /\ Len(out[id]) <= knn
            /\ Len(ids) >= knn + 1 => Len(out[id]) = knn

\* ------------------------------------------------------------ claims: main
\* C7. Empty corpus: with no markdown file under the input directory, main
\* ends with success and the four artifacts exist in the output directory,
\* each holding zero records.
EmptyCorpusArtifacts ==
    (mpc = "exited" /\ md_files = <<>>) =>
        /\ exit_code = 0
        /\ \A f \in Artifacts : files[f].present /\ files[f].rows = <<>>

\* --------------------------------------------------------- claims: slugify
\* C9. Slug normal form: slugify returns a lowercase string with no
\* whitespace and no run of two or more hyphens, that neither begins nor ends
\* with a hyphen.
SlugNormalForm ==
    spc = "done" =>
        /\ \A i \in 1..Len(slug) : slug[i] = Lower(slug[i]) /\ ~IsSpace(slug[i])
        /\ \A i \in 1..(Len(slug) - 1) : ~(slug[i] = HYPHEN /\ slug[i + 1] = HYPHEN)
        /\ slug # <<>> => (slug[1] # HYPHEN /\ slug[Len(slug)] # HYPHEN)

====
